---- MODULE Spec2Model ----
(***************************************************************************)
(* State-machine model of the genicam device plugin:                       *)
(*   - the fingerprint goroutine (doFingerprint / writeFingerprintToChannel)*)
(*     that enumerates devices, updates the d.devices cache and sends one   *)
(*     fingerprint response per cycle on an unbuffered channel;             *)
(*   - Reserve, which validates requested ids against the cache;            *)
(*   - the sync.RWMutex d.deviceLock, the timer and the context.            *)
(* Every goroutine step that touches shared state is one action, so the     *)
(* interleavings of the poller with a Reserve call are explored.            *)
(***************************************************************************)
EXTENDS Naturals, Sequences, FiniteSets

(***************************************************************************)
(* Bounds of the model.                                                     *)
(***************************************************************************)
MaxDevs   == 2   \* handles GetDevices returns in one cycle
MaxCycles == 2   \* poll cycles started in one behaviour
MaxReq    == 2   \* length of Reserve's deviceIDs
MaxCalls  == 1   \* Reserve calls in one behaviour

\* Values the enumeration interface may report: the serial numbers, and the
\* descriptors (serial number, model, address) a device may be read as.  A1
\* changes its address, A2 is reported under two models.
Serials   == {"A1", "A2"}
Addresses == {"10.0.0.1", "10.0.0.2"}
Models    == {"camX", "camY"}
Descriptors ==
    {[serial_nbr |-> "A1", model |-> "camX", address |-> "10.0.0.1"],
     [serial_nbr |-> "A1", model |-> "camX", address |-> "10.0.0.2"],
     [serial_nbr |-> "A2", model |-> "camX", address |-> "10.0.0.2"],
     [serial_nbr |-> "A2", model |-> "camY", address |-> "10.0.0.2"]}

\* The seven attribute reads of one device, in source order:
\* Id, PhysicalId, Model, SerialNbr, Vendor, Address, Protocol.
NumAttrs == 7

\* Program constants (part_000 lines 51-58).
vendor          == "tis"
deviceType      == "genicam"
deviceSerialNbr == "GENICAM_DEVICE_SERIAL_NBR"
deviceAddress   == "GENICAM_DEVICE_ADDRESS"

VARIABLES
    configured,            \* SetConfig has been called
    enabled,               \* d.enabled
    devices,               \* d.devices: map serial_nbr -> address
    deviceLock,            \* d.deviceLock: [w: writer holds, pending: writer waits,
                           \*                r: readers holding]
    pollPc,                \* position of the doFingerprint goroutine
    timer,                 \* ticker: "armed" (running) or "pending" (value in ticker.C)
    cancelled,             \* ctx.Done() is closed
    cycles,                \* poll cycles started so far
    devs,                  \* number of handles returned by aravis.GetDevices
    idx,                   \* loop index of the poller's current range loop
    discoveredDevices,     \* slice of fingerprintedDevice of the current/last cycle
    deviceListByDeviceName,\* map model -> slice of fingerprintedDevice
    outCh,                 \* response offered on the unbuffered channel (or NoEvent)
    lastEvent,             \* last response the consumer received (or NoEvent)
    resPc,                 \* position of the Reserve call
    deviceIDs,             \* Reserve's argument
    resIdx,                \* loop index of Reserve's current range loop
    notExistingIDs,        \* Reserve's local slice
    envs,                  \* resp.Envs, as a set of <<key, value>> pairs
    result,                \* what Reserve returned
    calls,                 \* Reserve calls made so far
    resStartCycle,         \* history: poll cycles completed when the call was made
    resSeen,               \* history: the cache state the call checked, then the
                           \* results of the merges that ran during the call
    resEventIDs,           \* history: device ids of the response the consumer had
                           \* received when the call was made
    getErr,                \* err of aravis.GetDevices in the current/last cycle
    listed,                \* history: per handle of the current/last cycle, whether
                           \* its seven reads succeeded and what they returned
    preMerge,              \* history: d.devices when the current/last merge began
    emitted                \* history: responses offered on the channel so far

pollVars == <<pollPc, timer, cancelled, cycles, devs, idx, discoveredDevices,
              deviceListByDeviceName, outCh, lastEvent>>
resVars  == <<resPc, deviceIDs, resIdx, notExistingIDs, envs, result, calls,
              resStartCycle, resSeen>>
pollHist == <<getErr, listed, preMerge, emitted>>
resHist  == <<resEventIDs>>
vars     == <<configured, enabled, devices, deviceLock, pollVars, resVars,
              pollHist, resHist>>

(***************************************************************************)
(* Go maps and slices.                                                      *)
(***************************************************************************)
EmptyMap == [k \in {} |-> ""]

\* m[k] = v on a Go map
MapSet(m, k, v) == [x \in (DOMAIN m) \cup {k} |-> IF x = k THEN v ELSE m[x]]

\* resp.Envs[k] = v on the set-of-pairs representation
EnvSet(e, k, v) == {p \in e : p[1] # k} \cup {<<k, v>>}

\* Faulty variant: the slice of the key is replaced, not appended to.
MapAppendOverwrite(m, k, d) == MapSet(m, k, <<d>>)

\* append(m[k], d) where a missing key reads as the nil slice
MapAppend(m, k, d) ==
    MapSet(m, k, IF k \in DOMAIN m THEN Append(m[k], d) ELSE <<d>>)

SeqsUpTo(S, n) == UNION {[1..k -> S] : k \in 0..n}

NoEvent  == [none |-> TRUE, groups |-> {}]

\* The device ids (device.Device.ID) listed in the groups of a response
EventIDs(ev) == UNION {{g.Devices[i].ID : i \in 1..Len(g.Devices)} : g \in ev.groups}
NoResult == [kind |-> "none", ids |-> <<>>, envs |-> {}]

(***************************************************************************)
(* Initial state: NewGenicamDevice (part_000 lines 121-126); no goroutine   *)
(* started, no call in flight.                                              *)
(***************************************************************************)
Init ==
    /\ configured = FALSE
    /\ enabled = FALSE
    /\ devices = EmptyMap
    /\ deviceLock = [w |-> FALSE, pending |-> FALSE, r |-> 0]
    /\ pollPc = "none"
    /\ timer = "armed"
    /\ cancelled = FALSE
    /\ cycles = 0
    /\ devs = 0
    /\ idx = 1
    /\ discoveredDevices = <<>>
    /\ deviceListByDeviceName = EmptyMap
    /\ outCh = NoEvent
    /\ lastEvent = NoEvent
    /\ resPc = "idle"
    /\ deviceIDs = <<>>
    /\ resIdx = 1
    /\ notExistingIDs = <<>>
    /\ envs = {}
    /\ result = NoResult
    /\ calls = 0
    /\ resStartCycle = 0
    /\ resSeen = <<>>
    /\ resEventIDs = {}
    /\ getErr = FALSE
    /\ listed = <<>>
    /\ preMerge = EmptyMap
    /\ emitted = 0

\* The Go runtime has aborted the process ("concurrent map read and map write").
Crashed == resPc = "fatal"

(***************************************************************************)
(* SetConfig (part_000 lines 145-161): called once by the client at startup.*)
(* The period only sets the timer's duration, which the model abstracts.    *)
(***************************************************************************)
SetConfig(e) ==
    /\ ~configured
    /\ configured' = TRUE
    /\ enabled' = e
    /\ UNCHANGED <<devices, deviceLock, pollVars, resVars>>
    /\ UNCHANGED <<pollHist, resHist>>

(***************************************************************************)
(* Fingerprint (part_000 lines 166-172) starts doFingerprint, which creates *)
(* a timer of duration 0 (fingerprint.go line 18).                          *)
(***************************************************************************)
Fingerprint ==
    /\ configured
    /\ pollPc = "none"
    /\ pollPc' = "select"
    /\ timer' = "armed"
    /\ UNCHANGED <<configured, enabled, devices, deviceLock, cancelled, cycles, devs,
                   idx, discoveredDevices, deviceListByDeviceName, outCh, lastEvent,
                   resVars>>
    /\ UNCHANGED <<pollHist, resHist>>

\* The runtime timer expires and puts a value into ticker.C.  The goroutine
\* looks at ticker.C only in its select, so an expiry during a cycle is
\* taken there.
TimerFire ==
    /\ ~Crashed
    /\ pollPc = "select"
    /\ timer = "armed"
    /\ timer' = "pending"
    /\ UNCHANGED <<configured, enabled, devices, deviceLock, pollPc, cancelled, cycles,
                   devs, idx, discoveredDevices, deviceListByDeviceName, outCh,
                   lastEvent, resVars>>
    /\ UNCHANGED <<pollHist, resHist>>

\* The caller of Fingerprint cancels the context.
Cancel ==
    /\ ~Crashed
    /\ pollPc # "none"
    /\ ~cancelled
    /\ cancelled' = TRUE
    /\ UNCHANGED <<configured, enabled, devices, deviceLock, pollPc, timer, cycles,
                   devs, idx, discoveredDevices, deviceListByDeviceName, outCh,
                   lastEvent, resVars>>
    /\ UNCHANGED <<pollHist, resHist>>

(***************************************************************************)
(* doFingerprint's select (fingerprint.go lines 20-29).  When both cases    *)
(* are ready Go picks one of them, so both actions are enabled.             *)
(***************************************************************************)
SelectDone ==
    /\ ~Crashed
    /\ pollPc = "select"
    /\ cancelled
    /\ pollPc' = "closed"          \* return; deferred close(devices)
    /\ UNCHANGED <<configured, enabled, devices, deviceLock, timer, cancelled, cycles,
                   devs, idx, discoveredDevices, deviceListByDeviceName, outCh,
                   lastEvent, resVars>>
    /\ UNCHANGED <<pollHist, resHist>>

SelectTick ==
    /\ ~Crashed
    /\ pollPc = "select"
    /\ timer = "pending"
    /\ cycles < MaxCycles
    /\ timer' = "armed"            \* ticker.Reset(d.fingerprintPeriod)
    /\ cycles' = cycles + 1
    /\ pollPc' = "lock"            \* d.writeFingerprintToChannel(devices)
    /\ UNCHANGED <<configured, enabled, devices, deviceLock, cancelled, devs, idx,
                   discoveredDevices, deviceListByDeviceName, outCh, lastEvent,
                   resVars>>
    /\ UNCHANGED <<pollHist, resHist>>

(***************************************************************************)
(* writeFingerprintToChannel (fingerprint.go lines 47-134).                 *)
(***************************************************************************)
\* d.deviceLock.Lock(): the writer announces itself, which holds off new
\* readers, then waits until the readers that hold the lock have left.
PollLockCall ==
    /\ ~Crashed
    /\ pollPc = "lock"
    /\ deviceLock' = [deviceLock EXCEPT !.pending = TRUE]
    /\ pollPc' = "lockwait"
    /\ UNCHANGED <<configured, enabled, devices, timer, cancelled, cycles, devs, idx,
                   discoveredDevices, deviceListByDeviceName, outCh, lastEvent,
                   resVars>>
    /\ UNCHANGED <<pollHist, resHist>>

PollLockAcquire ==
    /\ ~Crashed
    /\ pollPc = "lockwait"
    /\ ~deviceLock.w
    /\ deviceLock.r = 0
    /\ deviceLock' = [deviceLock EXCEPT !.pending = FALSE, !.w = TRUE]
    /\ pollPc' = "enum"
    /\ UNCHANGED <<configured, enabled, devices, timer, cancelled, cycles, devs, idx,
                   discoveredDevices, deviceListByDeviceName, outCh, lastEvent,
                   resVars>>
    /\ UNCHANGED <<pollHist, resHist>>

\* aravis.GetDevices (aravis.go lines 52-66): nil on error, else n handles.
GetDevices(n, err) == IF err THEN 0 ELSE n

\* Faulty variant: the error of the last read (Protocol) does not skip the
\* device.
ReadDeviceKeepOnProtocolError(disc, failAt, dev) ==
    IF failAt \notin {0, NumAttrs} THEN disc
    ELSE Append(disc, [serial_nbr |-> dev.serial_nbr, model |-> dev.model,
                       address |-> dev.address])

\* One iteration of the attribute-read loop (fingerprint.go lines 60-114):
\* failAt = 0 when all seven reads succeed, else the read that fails (continue).
\* Of the seven fields only model, serial_nbr and address are read later.
ReadDevice(disc, failAt, dev) ==
    IF failAt # 0 THEN disc
    ELSE Append(disc, [serial_nbr |-> dev.serial_nbr, model |-> dev.model,
                       address |-> dev.address])

\* What the attribute reads of one handle returned: the descriptor, or an
\* error at one of the seven reads (history, kept in listed).
NoDev == [serial_nbr |-> "", model |-> "", address |-> ""]
Outcome(failAt, dev) ==
    IF failAt = 0 THEN [ok |-> TRUE, dev |-> dev] ELSE [ok |-> FALSE, dev |-> NoDev]

\* deviceGroupFromFingerprintData (fingerprint.go lines 137-163)
NilGroup == [Vendor |-> "", Type |-> "", Name |-> "", Devices |-> <<>>]

deviceGroupFromFingerprintData(groupName, deviceList) ==
    IF Len(deviceList) = 0 THEN NilGroup
    ELSE [Vendor  |-> vendor,
          Type    |-> deviceType,
          Name    |-> groupName,
          Devices |-> [i \in 1..Len(deviceList) |->
                          [ID |-> deviceList[i].serial_nbr, Healthy |-> TRUE]]]

\* fingerprint.go lines 128-133: one group per key of the map (the order of a
\* Go map iteration is unspecified, so the groups are a set).
NewFingerprint(byName) ==
    [none   |-> FALSE,
     groups |-> {deviceGroupFromFingerprintData(g, byName[g]) : g \in DOMAIN byName}]

\* Faulty variant: an entry that exists is not overwritten.
CacheInsertOnly(cache, d) ==
    IF d.serial_nbr \in DOMAIN cache THEN cache
    ELSE MapSet(cache, d.serial_nbr, d.address)

\* fingerprint.go line 124
CacheUpsert(cache, d) == MapSet(cache, d.serial_nbr, d.address)

\* fingerprint.go lines 122-125 as a whole: the cache after merging disc
RECURSIVE MergeAll(_, _)
MergeAll(cache, disc) ==
    IF Len(disc) = 0 THEN cache
    ELSE MergeAll(CacheUpsert(cache, Head(disc)), Tail(disc))

\* Faulty variant: a cycle with nothing to merge returns without a send.
EnterMergeSkipEmpty(disc) ==
    /\ idx' = 1
    /\ deviceListByDeviceName' = EmptyMap
    /\ preMerge' = devices
    /\ IF Len(disc) = 0
       THEN /\ pollPc' = "unlock"
            /\ outCh' = outCh
            /\ emitted' = emitted
            /\ resSeen' = resSeen
       ELSE /\ pollPc' = "merge"
            /\ outCh' = outCh
            /\ emitted' = emitted
            /\ resSeen' = IF resPc = "lookup"
                          THEN Append(resSeen, MergeAll(devices, disc))
                          ELSE resSeen

\* Position after the attribute loop: the merge loop, or (nothing to merge)
\* the channel send.  A call that is past its check from now on runs beside
\* this cycle's merge, whose result is recorded in its history.
EnterMerge(disc) ==
    /\ idx' = 1
    /\ deviceListByDeviceName' = EmptyMap
    /\ preMerge' = devices
    /\ IF Len(disc) = 0
       THEN /\ pollPc' = "send"
            /\ outCh' = NewFingerprint(EmptyMap)
            /\ emitted' = emitted + 1
            /\ resSeen' = resSeen
       ELSE /\ pollPc' = "merge"
            /\ outCh' = outCh
            /\ emitted' = emitted
            /\ resSeen' = IF resPc = "lookup"
                          THEN Append(resSeen, MergeAll(devices, disc))
                          ELSE resSeen

\* Faulty variant: a failed listing makes the poller return and close the
\* stream (the deferred Unlock and close run).
EnumerateReturnOnError ==
    /\ ~Crashed
    /\ pollPc = "enum"
    /\ \E n \in 0..MaxDevs, err \in BOOLEAN :
          /\ devs' = GetDevices(n, err)
          /\ getErr' = err
          /\ discoveredDevices' = <<>>
          /\ listed' = <<>>
          /\ IF err
             THEN /\ pollPc' = "closed"
                  /\ deviceLock' = [deviceLock EXCEPT !.w = FALSE]
                  /\ UNCHANGED <<idx, deviceListByDeviceName, outCh, resSeen,
                                 preMerge, emitted>>
             ELSE /\ deviceLock' = deviceLock
                  /\ IF GetDevices(n, err) = 0
                     THEN EnterMerge(<<>>)
                     ELSE /\ pollPc' = "read"
                          /\ idx' = 1
                          /\ UNCHANGED <<deviceListByDeviceName, outCh, resSeen,
                                         preMerge, emitted>>
    /\ UNCHANGED resHist
    /\ UNCHANGED <<configured, enabled, devices, timer, cancelled, cycles,
                   lastEvent, resPc, deviceIDs, resIdx, notExistingIDs, envs, result,
                   calls, resStartCycle>>

\* fingerprint.go lines 51-57
Enumerate ==
    /\ ~Crashed
    /\ pollPc = "enum"
    /\ \E n \in 0..MaxDevs, err \in BOOLEAN :
          /\ devs' = GetDevices(n, err)
          /\ getErr' = err
          /\ discoveredDevices' = <<>>
          /\ listed' = <<>>
          /\ IF GetDevices(n, err) = 0
             THEN EnterMerge(<<>>)
             ELSE /\ pollPc' = "read"
                  /\ idx' = 1
                  /\ UNCHANGED <<deviceListByDeviceName, outCh, resSeen, preMerge,
                                 emitted>>
    /\ UNCHANGED resHist
    /\ UNCHANGED <<configured, enabled, devices, deviceLock, timer, cancelled, cycles,
                   lastEvent, resPc, deviceIDs, resIdx, notExistingIDs, envs, result,
                   calls, resStartCycle>>

\* fingerprint.go lines 60-114, one device
ReadStep ==
    /\ ~Crashed
    /\ pollPc = "read"
    /\ idx <= devs
    /\ \E failAt \in 0..NumAttrs, dev \in Descriptors :
          LET disc == ReadDevice(discoveredDevices, failAt, dev) IN
          /\ discoveredDevices' = disc
          /\ listed' = Append(listed, Outcome(failAt, dev))
          /\ IF idx = devs
             THEN EnterMerge(disc)
             ELSE /\ idx' = idx + 1
                  /\ UNCHANGED <<pollPc, deviceListByDeviceName, outCh, resSeen,
                                 preMerge, emitted>>
    /\ UNCHANGED <<getErr, resHist>>
    /\ UNCHANGED <<configured, enabled, devices, deviceLock, timer, cancelled, cycles,
                   devs, lastEvent, resPc, deviceIDs, resIdx, notExistingIDs, envs,
                   result, calls, resStartCycle>>

\* fingerprint.go lines 122-125, one device; after the last one the response
\* is built and offered on the channel (lines 128-133).
MergeStep ==
    /\ ~Crashed
    /\ pollPc = "merge"
    /\ idx <= Len(discoveredDevices)
    /\ LET d      == discoveredDevices[idx]
           byName == MapAppend(deviceListByDeviceName, d.model, d)
           last   == idx = Len(discoveredDevices)
       IN  /\ deviceListByDeviceName' = byName
           /\ devices' = CacheUpsert(devices, d)
           /\ idx' = idx + 1
           /\ IF last
              THEN /\ pollPc' = "send"
                   /\ outCh' = NewFingerprint(byName)
              ELSE UNCHANGED <<pollPc, outCh>>
    /\ UNCHANGED <<configured, enabled, deviceLock, timer, cancelled, cycles, devs,
                   discoveredDevices, lastEvent, resVars>>
    /\ emitted' = IF idx = Len(discoveredDevices) THEN emitted + 1 ELSE emitted
    /\ UNCHANGED <<getErr, listed, preMerge, resHist>>

\* The consumer of the channel receives the offered response; the send
\* (fingerprint.go line 133) returns.
ConsumerRecv ==
    /\ ~Crashed
    /\ pollPc = "send"
    /\ lastEvent' = outCh
    /\ outCh' = NoEvent
    /\ pollPc' = "unlock"
    /\ UNCHANGED <<configured, enabled, devices, deviceLock, timer, cancelled, cycles,
                   devs, idx, discoveredDevices, deviceListByDeviceName, resVars>>
    /\ UNCHANGED <<pollHist, resHist>>

\* deferred d.deviceLock.Unlock() (fingerprint.go line 49), back to the select
PollUnlock ==
    /\ ~Crashed
    /\ pollPc = "unlock"
    /\ deviceLock' = [deviceLock EXCEPT !.w = FALSE]
    /\ pollPc' = "select"
    /\ UNCHANGED <<configured, enabled, devices, timer, cancelled, cycles, devs, idx,
                   discoveredDevices, deviceListByDeviceName, outCh, lastEvent,
                   resVars>>
    /\ UNCHANGED <<pollHist, resHist>>


(***************************************************************************)
(* Reserve (part_000 lines 196-243).                                        *)
(***************************************************************************)
\* The serial numbers a caller may ask for.
Requests == SeqsUpTo(Serials, MaxReq)

\* reservationError (part_000 lines 185-191): the message joins every id of
\* notExistingIDs, so the error names exactly the ids of the slice.
reservationError(ids) == [kind |-> "unknownIDs", ids |-> ids, envs |-> {}]
errPluginDisabled     == [kind |-> "disabled", ids |-> <<>>, envs |-> {}]
statusInvalidArgument(id) == [kind |-> "invalidArgument", ids |-> <<id>>, envs |-> {}]
ContainerReservation(e)   == [kind |-> "ok", ids |-> <<>>, envs |-> e]

\* Faulty variant: the enabled check made before the empty-request check.
ReserveEntryDisabledFirst(ids, en) ==
    IF ~en THEN "disabled"
    ELSE IF Len(ids) = 0 THEN "empty"
    ELSE "proceed"

\* Faulty variant: the enabled check left out.
ReserveEntryNoDisabledCheck(ids, en) ==
    IF Len(ids) = 0 THEN "empty" ELSE "proceed"

\* part_000 lines 197-203: the two early returns, in source order
ReserveEntry(ids, en) ==
    IF Len(ids) = 0 THEN "empty"
    ELSE IF ~en THEN "disabled"
    ELSE "proceed"

\* Faulty variant: the loop stops collecting at the first missing id.
CheckAppendFirstOnly(notExisting, cache, id) ==
    IF id \notin DOMAIN cache /\ Len(notExisting) = 0
    THEN Append(notExisting, id)
    ELSE notExisting

\* part_000 lines 213-215: one iteration of the membership loop
CheckAppend(notExisting, cache, id) ==
    IF id \notin DOMAIN cache THEN Append(notExisting, id) ELSE notExisting

\* part_000 lines 238-239: both entries are stored under fixed keys
SetEnvs(e, serial_nbr, address) ==
    EnvSet(EnvSet(e, deviceSerialNbr, serial_nbr), deviceAddress, address)

\* The poller is inside its merge loop, writing d.devices (fingerprint.go
\* line 124): a map read without the lock races with those writes.
Racing == pollPc = "merge"

\* part_000 line 231: address, found := d.devices[serial_nbr], read without
\* the lock.  Unraced it is the map's value.  A read that races with a map
\* write is a data race: it may yield the value, any address, or no entry
\* (the runtime may also abort the process, see ReserveFatal).
MapReads(cache, id, racing) ==
    {IF id \in DOMAIN cache
     THEN [found |-> TRUE, address |-> cache[id]]
     ELSE [found |-> FALSE, address |-> ""]}
    \cup (IF racing
          THEN {[found |-> TRUE, address |-> a] : a \in Addresses}
               \cup {[found |-> FALSE, address |-> ""]}
          ELSE {})

\* Poll cycles that have run to their end (writeFingerprintToChannel returned).
CompletedCycles ==
    IF pollPc \in {"none", "select", "closed"} THEN cycles ELSE cycles - 1

\* part_000 lines 196-205
ReserveCall(ids) ==
    /\ configured
    /\ resPc = "idle"
    /\ calls < MaxCalls
    /\ calls' = calls + 1
    /\ deviceIDs' = ids
    /\ resStartCycle' = CompletedCycles
    /\ resIdx' = 1
    /\ notExistingIDs' = <<>>
    /\ envs' = {}
    /\ resSeen' = <<>>
    /\ LET e == ReserveEntry(ids, enabled) IN
       /\ resPc' = IF e = "proceed" THEN "rlock" ELSE "done"
       /\ result' = IF e = "empty" THEN ContainerReservation({})
                    ELSE IF e = "disabled" THEN errPluginDisabled
                    ELSE NoResult
    /\ UNCHANGED <<configured, enabled, devices, deviceLock, pollVars>>
    /\ resEventIDs' = EventIDs(lastEvent)
    /\ UNCHANGED pollHist

\* part_000 line 210: d.deviceLock.RLock()
ReserveRLock ==
    /\ resPc = "rlock"
    /\ ~deviceLock.w
    /\ ~deviceLock.pending
    /\ deviceLock' = [deviceLock EXCEPT !.r = @ + 1]
    /\ resPc' = "check"
    /\ resSeen' = <<devices>>
    /\ UNCHANGED <<configured, enabled, devices, pollVars, deviceIDs, resIdx,
                   notExistingIDs, envs, result, calls, resStartCycle>>
    /\ UNCHANGED <<pollHist, resHist>>

\* part_000 lines 212-216, one id
ReserveCheck ==
    /\ resPc = "check"
    /\ resIdx <= Len(deviceIDs)
    /\ notExistingIDs' = CheckAppend(notExistingIDs, devices, deviceIDs[resIdx])
    /\ resIdx' = resIdx + 1
    /\ UNCHANGED <<configured, enabled, devices, deviceLock, pollVars, resPc,
                   deviceIDs, envs, result, calls, resStartCycle, resSeen>>
    /\ UNCHANGED <<pollHist, resHist>>

\* part_000 lines 217-227: RUnlock, then the error return or the response
ReserveRUnlock ==
    /\ resPc = "check"
    /\ resIdx > Len(deviceIDs)
    /\ deviceLock' = [deviceLock EXCEPT !.r = @ - 1]
    /\ resIdx' = 1
    /\ envs' = {}
    /\ IF Len(notExistingIDs) # 0
       THEN /\ resPc' = "done"
            /\ result' = reservationError(notExistingIDs)
       ELSE /\ resPc' = "lookup"
            /\ result' = result
    /\ UNCHANGED <<configured, enabled, devices, pollVars, deviceIDs, notExistingIDs,
                   calls, resStartCycle, resSeen>>
    /\ UNCHANGED <<pollHist, resHist>>

\* Faulty variant: a reserved device is taken out of the cache.
ReserveLookupClaimsDevice ==
    /\ resPc = "lookup"
    /\ resIdx <= Len(deviceIDs)
    /\ \E rd \in MapReads(devices, deviceIDs[resIdx], Racing) :
          IF ~rd.found
          THEN /\ resPc' = "done"
               /\ result' = statusInvalidArgument(deviceIDs[resIdx])
               /\ UNCHANGED <<envs, resIdx, devices>>
          ELSE LET e == SetEnvs(envs, deviceIDs[resIdx], rd.address) IN
               /\ envs' = e
               /\ resIdx' = resIdx + 1
               /\ devices' = [k \in DOMAIN devices \ {deviceIDs[resIdx]} |->
                                 devices[k]]
               /\ IF resIdx = Len(deviceIDs)
                  THEN /\ resPc' = "done"
                       /\ result' = ContainerReservation(e)
                  ELSE UNCHANGED <<resPc, result>>
    /\ UNCHANGED <<configured, enabled, deviceLock, pollVars, deviceIDs,
                   notExistingIDs, calls, resStartCycle, resSeen>>
    /\ UNCHANGED <<pollHist, resHist>>

\* part_000 lines 229-242, one id; after the last id Reserve returns resp
ReserveLookup ==
    /\ resPc = "lookup"
    /\ resIdx <= Len(deviceIDs)
    /\ \E rd \in MapReads(devices, deviceIDs[resIdx], Racing) :
          IF ~rd.found
          THEN /\ resPc' = "done"
               /\ result' = statusInvalidArgument(deviceIDs[resIdx])
               /\ UNCHANGED <<envs, resIdx>>
          ELSE LET e == SetEnvs(envs, deviceIDs[resIdx], rd.address) IN
               /\ envs' = e
               /\ resIdx' = resIdx + 1
               /\ IF resIdx = Len(deviceIDs)
                  THEN /\ resPc' = "done"
                       /\ result' = ContainerReservation(e)
                  ELSE UNCHANGED <<resPc, result>>
    /\ UNCHANGED <<configured, enabled, devices, deviceLock, pollVars, deviceIDs,
                   notExistingIDs, calls, resStartCycle, resSeen>>
    /\ UNCHANGED <<pollHist, resHist>>

\* part_000 line 231 racing with fingerprint.go line 124: the Go runtime
\* detects the concurrent map access and aborts the process.
ReserveFatal ==
    /\ resPc = "lookup"
    /\ resIdx <= Len(deviceIDs)
    /\ Racing
    /\ resPc' = "fatal"
    /\ UNCHANGED <<configured, enabled, devices, deviceLock, pollVars, deviceIDs,
                   resIdx, notExistingIDs, envs, result, calls, resStartCycle,
                   resSeen>>
    /\ UNCHANGED <<pollHist, resHist>>

\* The caller takes the result; the call's locals are gone.
ReserveReturn ==
    /\ resPc = "done"
    /\ resPc' = "idle"
    /\ deviceIDs' = <<>>
    /\ resIdx' = 1
    /\ notExistingIDs' = <<>>
    /\ envs' = {}
    /\ result' = NoResult
    /\ resStartCycle' = 0
    /\ resSeen' = <<>>
    /\ UNCHANGED <<configured, enabled, devices, deviceLock, pollVars, calls>>
    /\ resEventIDs' = {}
    /\ UNCHANGED pollHist

(***************************************************************************)
(* Specifications.                                                          *)
(***************************************************************************)
Next ==
    \/ \E e \in BOOLEAN : SetConfig(e)
    \/ Fingerprint
    \/ TimerFire
    \/ Cancel
    \/ SelectDone
    \/ SelectTick
    \/ PollLockCall
    \/ PollLockAcquire
    \/ Enumerate
    \/ ReadStep
    \/ MergeStep
    \/ ConsumerRecv
    \/ PollUnlock
    \/ \E ids \in Requests : ReserveCall(ids)
    \/ ReserveRLock
    \/ ReserveCheck
    \/ ReserveRUnlock
    \/ ReserveLookup
    \/ ReserveFatal
    \/ ReserveReturn

Spec == Init /\ [][Next]_vars

\* The goroutines keep running: every step of the poller and of a Reserve
\* call is taken when it stays possible, and the timer expires.  Nothing
\* obliges the consumer to receive, the caller to cancel or to call Reserve.
FairSpec ==
    /\ Spec
    /\ WF_vars(TimerFire)
    /\ WF_vars(SelectDone)
    /\ WF_vars(SelectTick)
    /\ WF_vars(PollLockCall)
    /\ WF_vars(PollLockAcquire)
    /\ WF_vars(Enumerate)
    /\ WF_vars(ReadStep)
    /\ WF_vars(MergeStep)
    /\ WF_vars(PollUnlock)
    /\ WF_vars(ReserveRLock)
    /\ WF_vars(ReserveCheck)
    /\ WF_vars(ReserveRUnlock)
    /\ WF_vars(ReserveLookup)
    /\ WF_vars(ReserveReturn)


(***************************************************************************)
(* Reserve run on one fixed cache state S, as the code computes it when     *)
(* nothing else runs (part_000 lines 210-242).                              *)
(***************************************************************************)
RECURSIVE CheckAll(_, _, _)
CheckAll(notExisting, S, ids) ==
    IF Len(ids) = 0 THEN notExisting
    ELSE CheckAll(CheckAppend(notExisting, S, Head(ids)), S, Tail(ids))

RECURSIVE LookupAll(_, _, _)
LookupAll(e, S, ids) ==
    IF Len(ids) = 0 THEN e
    ELSE LookupAll(SetEnvs(e, Head(ids), S[Head(ids)]), S, Tail(ids))

ReserveOn(S, ids) ==
    IF Len(CheckAll(<<>>, S, ids)) # 0
    THEN reservationError(CheckAll(<<>>, S, ids))
    ELSE ContainerReservation(LookupAll({}, S, ids))

\* The devices the last poll cycle read in full, with the addresses it read
\* (discoveredDevices keeps the last cycle's slice between cycles).
LastRead == MergeAll(EmptyMap, discoveredDevices)

BetweenCycles == pollPc \in {"none", "select", "closed"}

SeqToSet(q) == {q[i] : i \in 1..Len(q)}

\* The call in flight was made between two poll cycles and no cycle has
\* started since.
QuietCall == resPc = "done" /\ BetweenCycles /\ resStartCycle = cycles

(***************************************************************************)
(* C1: with the plugin enabled and a non-empty request, Reserve fails       *)
(* whenever some requested id is not a key of the cache it checked, and the *)
(* error names every requested id that is absent (exactly those).           *)
(***************************************************************************)
C1_AbsentIdsAllNamed ==
    (resPc = "done" /\ enabled /\ Len(deviceIDs) # 0) =>
        LET absent == {id \in SeqToSet(deviceIDs) : id \notin DOMAIN resSeen[1]}
        IN  absent # {} =>
              /\ result.kind = "unknownIDs"
              /\ SeqToSet(result.ids) = absent

\* Reserve has failed with an error that names two absent ids.
C1_Witness ==
    /\ resPc = "done"
    /\ enabled
    /\ result.kind = "unknownIDs"
    /\ Cardinality(SeqToSet(result.ids)) = 2

\* Reserve has failed naming the one absent id of a request whose other id
\* is a key of the cache.
C1_WitnessMixed ==
    /\ resPc = "done"
    /\ enabled
    /\ result.kind = "unknownIDs"
    /\ \E i \in 1..Len(deviceIDs) : deviceIDs[i] \in DOMAIN resSeen[1]

(***************************************************************************)
(* C2 as stated: after a poll cycle has completed (and before the next one  *)
(* starts), a Reserve call for one serial number which that cycle read      *)
(* succeeds and returns the address the cycle read.                         *)
(***************************************************************************)
C2_ReserveAfterCycle ==
    (QuietCall /\ Len(deviceIDs) = 1 /\ deviceIDs[1] \in DOMAIN LastRead) =>
        /\ result.kind = "ok"
        /\ <<deviceAddress, LastRead[deviceIDs[1]]>> \in result.envs

(***************************************************************************)
(* C2 amended: the same, for a plugin that is enabled.                      *)
(***************************************************************************)
C2_EnabledReserveAfterCycle ==
    (QuietCall /\ enabled /\ Len(deviceIDs) = 1 /\ deviceIDs[1] \in DOMAIN LastRead) =>
        /\ result.kind = "ok"
        /\ result.envs = {<<deviceSerialNbr, deviceIDs[1]>>,
                          <<deviceAddress, LastRead[deviceIDs[1]]>>}

\* An enabled Reserve made after the second cycle has returned for a device
\* which that cycle read.
C2_Witness ==
    /\ QuietCall
    /\ enabled
    /\ cycles = 2
    /\ Len(deviceIDs) = 1
    /\ deviceIDs[1] \in DOMAIN LastRead
    /\ result.kind = "ok"

(***************************************************************************)
(* C3: when every requested id is in the cache, a successful Reserve        *)
(* carries, for each requested id, that id's serial number and its address; *)
(* k distinct ids give the serial numbers and addresses of all k devices.   *)
(***************************************************************************)
C3_EntryPerRequestedId ==
    (resPc = "done" /\ result.kind = "ok" /\ Len(deviceIDs) # 0) =>
        \A id \in SeqToSet(deviceIDs) :
            /\ \E p \in result.envs : p[2] = id
            /\ \E p \in result.envs : p[2] = resSeen[1][id]

(***************************************************************************)
(* C4: what one Reserve call returns comes from one cache state that a      *)
(* completed merge produced: the state it checked, or the state after a     *)
(* cycle that ran beside it; never partly one and partly another.           *)
(***************************************************************************)
C4_OneSnapshot ==
    (resPc = "done" /\ Len(resSeen) # 0) =>
        \E k \in 1..Len(resSeen) : result = ReserveOn(resSeen[k], deviceIDs)

(***************************************************************************)
(* C5: every Reserve call eventually returns; none stays blocked on the     *)
(* cache lock, whatever the poller is doing.                                *)
(***************************************************************************)
C5_ReserveReturns == (resPc = "rlock") ~> (resPc = "done")

(***************************************************************************)
(* C6: while a poll cycle is listing devices or reading their attributes    *)
(* the exclusive cache lock is not held.                                    *)
(***************************************************************************)
C6_EnumerationOutsideLock == pollPc \in {"enum", "read"} => ~deviceLock.w

(***************************************************************************)
(* C7: between poll cycles the keys of the cache are the serial numbers of  *)
(* the devices the most recently completed cycle read in full.              *)
(***************************************************************************)
C7_KeysAreLastCycle == BetweenCycles => DOMAIN devices = DOMAIN LastRead

(***************************************************************************)
(* C8: once the context is cancelled the channel is eventually closed, and  *)
(* no poll cycle starts after the cancellation.                             *)
(***************************************************************************)
C8_CancelStopsPoller ==
    /\ cancelled ~> (pollPc = "closed")
    /\ [][cancelled => ~(pollPc = "select" /\ pollPc' = "lock")]_vars

(***************************************************************************)
(* C9: Reserve with an empty request returns an empty reservation at once,  *)
(* without taking the cache lock or reading the cache, enabled or not and   *)
(* whether or not the poller holds the lock.                                *)
(***************************************************************************)
C9_EmptyRequestSucceeds ==
    (resPc # "idle" /\ Len(deviceIDs) = 0) =>
        /\ resPc = "done"
        /\ result = ContainerReservation({})
        /\ resSeen = <<>>
        /\ deviceLock.r = 0

\* An empty request has succeeded on a disabled plugin while the poller
\* holds the exclusive lock.
C9_Witness ==
    /\ resPc = "done"
    /\ Len(deviceIDs) = 0
    /\ result.kind = "ok"
    /\ ~enabled
    /\ deviceLock.w

(***************************************************************************)
(* C10 as stated: on a plugin that is not enabled Reserve fails with the    *)
(* "disabled" error for every request list, the empty one included.         *)
(***************************************************************************)
C10_DisabledFailsAlways ==
    (resPc = "done" /\ ~enabled) => result = errPluginDisabled

(***************************************************************************)
(* C10 amended: on a plugin that is not enabled Reserve fails with the      *)
(* "disabled" error for every non-empty request list (ids of the cache      *)
(* included), without reading the cache; the empty list succeeds.           *)
(***************************************************************************)
C10_DisabledFailsNonEmpty ==
    (resPc = "done" /\ ~enabled) =>
        /\ Len(deviceIDs) # 0 => (result = errPluginDisabled /\ resSeen = <<>>)
        /\ Len(deviceIDs) = 0 => result = ContainerReservation({})

\* A disabled plugin has refused a request for a device that is in the cache.
C10_Witness ==
    /\ resPc = "done"
    /\ ~enabled
    /\ Len(deviceIDs) # 0
    /\ \A i \in 1..Len(deviceIDs) : deviceIDs[i] \in DOMAIN devices
    /\ result = errPluginDisabled


(***************************************************************************)
(* The results of one poll cycle, read off the history of its reads.        *)
(***************************************************************************)
\* The descriptors of the handles whose seven reads all succeeded, in order
Survivors(outcomes) ==
    LET Ok(o) == o.ok
        sel   == SelectSeq(outcomes, Ok)
    IN  [i \in 1..Len(sel) |-> sel[i].dev]

\* The cycle's merge is over and its response is built.
CycleDone == pollPc \in {"send", "unlock"} \/ (BetweenCycles /\ cycles >= 1)

\* The response of the current/last cycle: on offer, or received.
CycleEvent == IF pollPc = "send" THEN outCh ELSE lastEvent

\* How many group members of a response carry the id s
MemberCount(ev, s) ==
    Cardinality({p \in {<<g, i>> : g \in ev.groups, i \in 1..MaxDevs + 1} :
                   p[2] <= Len(p[1].Devices) /\ p[1].Devices[p[2]].ID = s})

\* How many descriptors of a slice carry the serial number s
SerialCount(disc, s) == Cardinality({i \in 1..Len(disc) : disc[i].serial_nbr = s})

(***************************************************************************)
(* C11: a device for which one of the seven attribute reads fails gives no  *)
(* cache update and no group member in its cycle, and every other listed    *)
(* device of the cycle is read, merged into the cache and grouped.          *)
(***************************************************************************)
C11_FailedDeviceSkipped ==
    CycleDone =>
        /\ discoveredDevices = Survivors(listed)
        /\ devices = MergeAll(preMerge, Survivors(listed))
        /\ \A s \in Serials :
              MemberCount(CycleEvent, s) = SerialCount(Survivors(listed), s)

\* A cycle's response is on offer; its first handle failed a read and its
\* second handle was read in full.
C11_Witness ==
    /\ pollPc = "send"
    /\ Len(listed) = 2
    /\ ~listed[1].ok
    /\ listed[2].ok


\* The ids, in order, of the descriptors of a slice whose model is m
MembersOfModel(disc, m) ==
    LET IsM(d) == d.model = m
        sel    == SelectSeq(disc, IsM)
    IN  [i \in 1..Len(sel) |-> [ID |-> sel[i].serial_nbr, Healthy |-> TRUE]]

(***************************************************************************)
(* C12: the groups of a cycle's response partition the devices the cycle    *)
(* read in full by model: no group is empty, there is one group per model   *)
(* read, named by the model, and its members are exactly the devices of     *)
(* that model (so every device is in exactly one group, two devices share a *)
(* group iff they share the model, and the groups together hold every       *)
(* device read).                                                            *)
(***************************************************************************)
C12_GroupsPartitionByModel ==
    CycleDone =>
        LET groups == CycleEvent.groups
            disc   == discoveredDevices
        IN  /\ \A g \in groups : Len(g.Devices) >= 1
            /\ \A g, h \in groups : g.Name = h.Name => g = h
            /\ {g.Name : g \in groups} = {disc[i].model : i \in 1..Len(disc)}
            /\ \A g \in groups :
                  /\ g.Devices = MembersOfModel(disc, g.Name)
                  /\ g.Vendor = vendor /\ g.Type = deviceType
            /\ Cardinality({p \in groups \X (1..MaxDevs + 1) :
                               p[2] <= Len(p[1].Devices)}) = Len(disc)

\* A response on offer holds a group of two devices of one model.
C12_Witness ==
    /\ pollPc = "send"
    /\ \E g \in outCh.groups : Len(g.Devices) = 2

\* A response on offer holds two groups, for two devices of different models.
C12_WitnessTwoGroups ==
    /\ pollPc = "send"
    /\ Cardinality(outCh.groups) = 2


\* The poller is inside a cycle and has not yet reached its channel send.
BeforeSend == pollPc \in {"lock", "lockwait", "enum", "read", "merge"}

(***************************************************************************)
(* C13: every poll cycle sends exactly one response: the number of sends    *)
(* equals the number of cycles started, less the cycle that has not reached *)
(* its send yet; a cycle is left only after its response was received; and  *)
(* the cycle whose listing failed or in which no device was read in full    *)
(* sends a response with zero groups.                                       *)
(***************************************************************************)
C13_OneEventPerCycle ==
    /\ BeforeSend => emitted + 1 = cycles
    /\ ~BeforeSend => emitted = cycles
    /\ pollPc = "send" => ~outCh.none
    /\ pollPc = "send" /\ (getErr \/ discoveredDevices = <<>>) => outCh.groups = {}
    /\ pollPc = "unlock" =>
          /\ ~lastEvent.none
          /\ (getErr \/ discoveredDevices = <<>>) => lastEvent.groups = {}

\* The response of a cycle whose listing failed is on offer.
C13_Witness ==
    /\ pollPc = "send"
    /\ getErr
    /\ outCh = [none |-> FALSE, groups |-> {}]

\* The response of a cycle in which every listed device failed a read.
C13_WitnessAllFailed ==
    /\ pollPc = "unlock"
    /\ Len(listed) = MaxDevs
    /\ discoveredDevices = <<>>
    /\ lastEvent = [none |-> FALSE, groups |-> {}]


(***************************************************************************)
(* C14: the polling loop stops only on cancellation: whenever the poller    *)
(* has returned and closed its stream the context has been cancelled; a     *)
(* failed listing, a failed attribute read or a failed reservation leaves   *)
(* it in its loop.                                                          *)
(***************************************************************************)
C14_StopsOnlyOnCancel == pollPc = "closed" => cancelled

\* The poller has stopped on cancellation, after a cycle whose listing failed
\* and beside a reservation that failed for an unknown device.
C14_Witness ==
    /\ pollPc = "closed"
    /\ cancelled
    /\ cycles >= 1
    /\ getErr
    /\ resPc = "done"
    /\ result.kind = "unknownIDs"

\* The poller is back in its select, not cancelled, after a cycle in which a
\* listed device failed an attribute read.
C14_WitnessStillPolling ==
    /\ pollPc = "select"
    /\ ~cancelled
    /\ cycles >= 1
    /\ \E i \in 1..Len(listed) : ~listed[i].ok


(***************************************************************************)
(* C15: every access to the cache is made under its lock: Reserve reads     *)
(* d.devices only while it holds a read lock, the poller writes it only     *)
(* while it holds the write lock, and so no read of Reserve is pending      *)
(* while the poller is in its merge loop.                                   *)
(***************************************************************************)
C15_CacheAccessUnderLock ==
    /\ resPc \in {"check", "lookup"} => deviceLock.r >= 1
    /\ pollPc = "merge" => deviceLock.w
    /\ ~(resPc \in {"check", "lookup"} /\ Racing)


(***************************************************************************)
(* C19: Reserve never returns the InvalidArgument "unknown device" status   *)
(* error: the second lookup finds every id that passed the membership       *)
(* check.                                                                   *)
(***************************************************************************)
C19_SecondLookupNeverFails == result.kind # "invalidArgument"


(***************************************************************************)
(* C16: Reserve leaves the cache unchanged on every path: no step in which  *)
(* a call starts, advances or returns changes d.devices, and every step     *)
(* that changes d.devices is a step of the poller's merge loop, taken with  *)
(* the write lock held.                                                     *)
(***************************************************************************)
C16_OnlyMergeWritesCache ==
    [][/\ resVars' # resVars => devices' = devices
       /\ devices' # devices =>
             /\ pollPc = "merge"
             /\ deviceLock.w
             /\ devices' = CacheUpsert(devices, discoveredDevices[idx])]_vars

\* A successful call has ended beside a cache that holds what it reserved.
C16_Witness ==
    /\ resPc = "done"
    /\ result.kind = "ok"
    /\ Len(deviceIDs) # 0
    /\ \A i \in 1..Len(deviceIDs) : deviceIDs[i] \in DOMAIN devices

\* A call has ended with the unknown-device error beside a non-empty cache.
C16_WitnessUnknown ==
    /\ resPc = "done"
    /\ result.kind = "unknownIDs"
    /\ devices # EmptyMap


\* Every requested id is a key of the cache that the last listing did not
\* read: the devices asked for have vanished from enumeration.
VanishedRequest ==
    /\ Len(deviceIDs) # 0
    /\ \A i \in 1..Len(deviceIDs) :
          deviceIDs[i] \in DOMAIN devices \ DOMAIN LastRead

(***************************************************************************)
(* C17: the cache is accretive: no step removes a key of d.devices, and a   *)
(* reservation (plugin enabled) for devices that have vanished from         *)
(* enumeration ends with success and the address the cache holds for them.  *)
(***************************************************************************)
C17_AccretiveAndReservable ==
    [][/\ DOMAIN devices \subseteq DOMAIN devices'
       /\ (resPc = "lookup" /\ resPc' = "done" /\ enabled /\ VanishedRequest) =>
             result' = ReserveOn(devices, deviceIDs)]_vars

(***************************************************************************)
(* C18: fingerprinted implies reservable: every id of the response the      *)
(* consumer received last is a key of the cache, and a call (plugin         *)
(* enabled) for ids of a response received before the call does not end     *)
(* with an unknown-device error.                                            *)
(***************************************************************************)
C18_FingerprintedReservable ==
    /\ EventIDs(lastEvent) \subseteq DOMAIN devices
    /\ (/\ resPc = "done"
        /\ enabled
        /\ Len(deviceIDs) # 0
        /\ SeqToSet(deviceIDs) \subseteq resEventIDs) =>
          result.kind \notin {"unknownIDs", "invalidArgument"}

====
